---- MODULE Spec2Model ----
(***************************************************************************)
(* Model of src/fconv/fkrelu.cpp (ELINA, exact convex relaxation of the    *)
(* K-dimensional ReLU).                                                    *)
(*                                                                         *)
(* Numbers.  The code computes on `double` (MatrixXd) and on GMP rationals *)
(* (mpq_t).  Both are modelled by exact rationals <<n, d>> in lowest terms *)
(* with d > 0.  All inputs of the model are small integers or halves, so   *)
(* sums, differences and products are exact in binary64 as well; the only  *)
(* inexact binary64 operations of the code are the two divisions of        *)
(* relu_1, which are modelled by the exact quotient.                       *)
(*                                                                         *)
(* Indices.  C++ indices start at 0, TLA+ sequences at 1: A(i, j) of the   *)
(* code is A.m[i + 1][j + 1] here, and constraint/vertex indices kept in   *)
(* data (maximal_H) are the 0-based ones of the code.                      *)
(***************************************************************************)
EXTENDS Integers, Sequences, FiniteSets, TLC

VARIABLES
    pc,             \* position of the running call
    op,             \* the function that was called
    A,              \* fkrelu / krelu_with_cdd: the input matrix
    lb, ub,         \* relu_1: its two arguments
    tr_in,          \* transpose_incidence: the input of the first call
    tr_out,         \* transpose_incidence: outcome of the first call
    tr_back,        \* transpose_incidence: outcome of the call on tr_out
    ret,            \* outcome of the call: [status, res]
    invoked,        \* components the running call has invoked so far
    quadrant2info,  \* map<Quadrant, QuadrantInfo> in iteration order
    qi,             \* number of map entries the loop has gone through
    quadrant2pdd,   \* map<Quadrant, PDD> in insertion (= iteration) order
    heap,           \* the mpq_t arrays: [val, frees]
    uaf,            \* an mpq_t array was read after its release
    vertices,       \* krelu_with_cdd: the dd_MatrixPtr `vertices`
    counter,        \* krelu_with_cdd: the row counter
    num_vertices    \* krelu_with_cdd: the sum of the quadrants' sizes

vars == <<pc, op, A, lb, ub, tr_in, tr_out, tr_back, ret, invoked,
          quadrant2info, qi, quadrant2pdd, heap, uaf, vertices, counter,
          num_vertices>>

-----------------------------------------------------------------------------
(* Bounds of the model.                                                    *)

\* transpose_incidence: at most this many bitsets in the input
MaxRows == 3
\* transpose_incidence: bitsets of at most this many bits
MaxBits == 2
\* relu_1 and fkrelu with K = 1: bounds are the halves n/2 with |n/2| <= MaxCoord
MaxCoord == 2
\* K >= 2: centre coordinates of the input octahedron are in -MaxCentre..MaxCentre
MaxCentre == 1
\* K >= 2: radii of the input octahedron are in -1..MaxRadius
MaxRadius == 2

-----------------------------------------------------------------------------
(* Exact rational arithmetic.                                              *)

Abs(n) == IF n < 0 THEN -n ELSE n

RECURSIVE GCD(_, _)
GCD(a, b) == IF b = 0 THEN a ELSE GCD(b, a % b)

\* the rational n/d (d # 0) in lowest terms with a positive denominator
Q(n, d) ==
    LET g == GCD(Abs(n), Abs(d))
        s == IF d < 0 THEN -1 ELSE 1
    IN  <<(s * n) \div g, (s * d) \div g>>

I(n) == <<n, 1>>

RAdd(x, y) == Q(x[1] * y[2] + y[1] * x[2], x[2] * y[2])
RNeg(x) == <<-x[1], x[2]>>
RSub(x, y) == RAdd(x, RNeg(y))
RMul(x, y) == Q(x[1] * y[1], x[2] * y[2])
\* y # 0
RDiv(x, y) == Q(x[1] * y[2], x[2] * y[1])
RLt(x, y) == x[1] * y[2] < y[1] * x[2]
RLe(x, y) == x[1] * y[2] <= y[1] * x[2]
RIsZero(x) == x[1] = 0

RECURSIVE RSum(_)
RSum(s) == IF s = <<>> THEN I(0) ELSE RAdd(Head(s), RSum(Tail(s)))

\* h . v for a row h and a point v of the same length
Dot(h, v) == RSum([k \in 1..Len(h) |-> RMul(h[k], v[k])])

-----------------------------------------------------------------------------
(* Outcomes.  ASRTF(cond, msg) ends the call with msg when cond is false;  *)
(* assert(cond) aborts it.                                                 *)

Ok(x) == [status |-> "ok", res |-> x]
Fail(msg) == [status |-> "ASRTF", res |-> msg]
Abort(msg) == [status |-> "assert", res |-> msg]
None == [status |-> "none", res |-> <<>>]

-----------------------------------------------------------------------------
(* transpose_incidence.  A bset is a sequence of BOOLEAN; bits 0..n-1 of   *)
(* the code are positions 1..n.                                            *)

\* faulty variant: the loop over the rows starts at row 1 instead of row 0
transpose_incidence_skip(input) ==
    IF input = <<>>
    THEN Fail("The function doesn't support empty input.")
    ELSE LET num_rows == Len(input)
             num_cols == Len(input[1])
         IN  Ok([col \in 1..num_cols |->
                    [row \in 1..num_rows |-> row > 1 /\ input[row][col]]])

transpose_incidence(input) ==
    IF input = <<>>
    THEN Fail("The function doesn't support empty input.")
    ELSE LET num_rows == Len(input)
             num_cols == Len(input[1])
         IN  IF \E row \in 1..num_rows : Len(input[row]) # num_cols
             THEN Abort("All incidences should be of the same size.")
             ELSE Ok([col \in 1..num_cols |->
                        [row \in 1..num_rows |-> input[row][col]]])

-----------------------------------------------------------------------------
(* relu_1.  A MatrixXd is [cols, m]: m is the sequence of its rows.        *)

Matrix(cols, m) == [cols |-> cols, m |-> m]
Rows(M) == Len(M.m)

\* faulty variant: lmd and mu change places in the third row
relu_1_swapped(lb_, ub_) ==
    IF ~RLe(lb_, ub_) THEN Fail("Unsoundness - lower bound should be <= then upper bound.")
    ELSE IF ~(RLt(lb_, I(0)) /\ RLt(I(0), ub_))
    THEN Fail("Expecting non-trivial input where lb < 0 < ub.")
    ELSE LET lmd == RDiv(RMul(RNeg(lb_), ub_), RSub(ub_, lb_))
             mu == RDiv(ub_, RSub(ub_, lb_))
         IN  Ok(Matrix(3, << <<I(0), I(0), I(1)>>,
                             <<I(0), I(-1), I(1)>>,
                             <<mu, lmd, I(-1)>> >>))

\* faulty variant: the slope is -lb / (ub - lb)
relu_1_slope(lb_, ub_) ==
    IF ~RLe(lb_, ub_) THEN Fail("Unsoundness - lower bound should be <= then upper bound.")
    ELSE IF ~(RLt(lb_, I(0)) /\ RLt(I(0), ub_))
    THEN Fail("Expecting non-trivial input where lb < 0 < ub.")
    ELSE LET lmd == RDiv(RMul(RNeg(lb_), ub_), RSub(ub_, lb_))
             mu == RDiv(RNeg(lb_), RSub(ub_, lb_))
         IN  Ok(Matrix(3, << <<I(0), I(0), I(1)>>,
                             <<I(0), I(-1), I(1)>>,
                             <<lmd, mu, I(-1)>> >>))

\* faulty variant: the sign conditions on the bounds are not checked
relu_1_loose(lb_, ub_) ==
    IF ~RLe(lb_, ub_) THEN Fail("Unsoundness - lower bound should be <= then upper bound.")
    ELSE LET d == RSub(ub_, lb_)
         IN  IF RIsZero(d) THEN Abort("Expected mu > 0.")
             ELSE LET lmd == RDiv(RMul(RNeg(lb_), ub_), d)
                      mu == RDiv(ub_, d)
                  IN  Ok(Matrix(3, << <<I(0), I(0), I(1)>>,
                                      <<I(0), I(-1), I(1)>>,
                                      <<lmd, mu, I(-1)>> >>))

relu_1(lb_, ub_) ==
    IF ~RLe(lb_, ub_) THEN Fail("Unsoundness - lower bound should be <= then upper bound.")
    ELSE IF ~(RLt(lb_, I(0)) /\ RLt(I(0), ub_))
    THEN Fail("Expecting non-trivial input where lb < 0 < ub.")
    ELSE LET lmd == RDiv(RMul(RNeg(lb_), ub_), RSub(ub_, lb_))
             mu == RDiv(ub_, RSub(ub_, lb_))
         IN  IF ~RLt(I(0), lmd) THEN Abort("Expected lmd > 0.")
             ELSE IF ~RLt(I(0), mu) THEN Abort("Expected mu > 0.")
             ELSE Ok(Matrix(3, << <<I(0), I(0), I(1)>>,       \* y >= 0
                                  <<I(0), I(-1), I(1)>>,      \* y >= x
                                  <<lmd, mu, I(-1)>> >>))     \* y <= mu * x + lmd

-----------------------------------------------------------------------------
(* The static tables of octahedron.h and the input check.                  *)

\* fkrelu.cpp:53 and :67: K is accepted when MinK <= K <= MaxK
MinK == 1
MaxK == 4

RECURSIVE Pow3(_)
Pow3(k) == IF k = 0 THEN 1 ELSE 3 * Pow3(k - 1)

\* POW3[K]
POW3(K) == Pow3(K)

\* digit number j (1 = most significant) of t written with K digits in base 3
Digit3(t, K, j) == (t \div Pow3(K - j)) % 3

\* K2OCTAHEDRON_COEFS[K]: every combination of 1, 0, -1 over the K dimensions
\* except the all-zero one, in lexicographic order with 1 before 0 before -1
\* (for K = 1: <<1>>, <<-1>>, the rows x >= lb and x <= ub that fkrelu reads)
K2OCTAHEDRON_COEFS(K) ==
    LET zero == (Pow3(K) - 1) \div 2
        code(i) == IF i - 1 < zero THEN i - 1 ELSE i
    IN  [i \in 1..(Pow3(K) - 1) |-> [j \in 1..K |-> 1 - Digit3(code(i), K, j)]]

\* faulty variant: the coefficients are not compared with the table
verify_fkrelu_input_nocoefs(A_) ==
    LET K == A_.cols - 1
    IN  IF ~(MinK <= K /\ K <= MaxK) THEN Fail("K should be within allowed range.")
        ELSE IF Rows(A_) # POW3(K) - 1
        THEN Fail("Unexpected number of rows in the input.")
        ELSE Ok(TRUE)

verify_fkrelu_input(A_) ==
    LET K == A_.cols - 1
    IN  IF ~(MinK <= K /\ K <= MaxK) THEN Fail("K should be within allowed range.")
        ELSE IF Rows(A_) # POW3(K) - 1
        THEN Fail("Unexpected number of rows in the input.")
        ELSE LET coefs == K2OCTAHEDRON_COEFS(K)
             IN  IF \E i \in 1..Rows(A_) : \E j \in 1..K :
                        A_.m[i][j + 1] # I(coefs[i][j])
                 THEN Fail("Input is not of correct format.")
                 ELSE Ok(TRUE)

-----------------------------------------------------------------------------
(* Quadrants, vertex enumeration and the splitter.                         *)

RECURSIVE Pow2(_)
Pow2(k) == IF k = 0 THEN 1 ELSE 2 * Pow2(k - 1)

\* all 2^K quadrants in the order of map<Quadrant, _>: lexicographic, MINUS < PLUS
AllQuadrants(K) ==
    [t \in 1..Pow2(K) |->
        [j \in 1..K |-> IF ((t - 1) \div Pow2(K - j)) % 2 = 0 THEN "MINUS" ELSE "PLUS"]]

\* strictly increasing sequences of k indices out of lo..n
RECURSIVE IncSeqs(_, _, _)
IncSeqs(lo, n, k) ==
    IF k = 0 THEN {<<>>}
    ELSE UNION {{<<i>> \o s : s \in IncSeqs(i + 1, n, k - 1)} : i \in lo..n}

\* M without its first row and its column j
Minor(M, j) ==
    [r \in 1..(Len(M) - 1) |->
        [c \in 1..(Len(M) - 1) |-> M[r + 1][IF c < j THEN c ELSE c + 1]]]

RECURSIVE ISum(_)
ISum(s) == IF s = <<>> THEN 0 ELSE Head(s) + ISum(Tail(s))

RECURSIVE IProd(_)
IProd(s) == IF s = <<>> THEN 1 ELSE Head(s) * IProd(Tail(s))

\* determinant of a square matrix of integers, by expansion along the first row
RECURSIVE Det(_)
Det(M) ==
    IF Len(M) = 1 THEN M[1][1]
    ELSE ISum([j \in 1..Len(M) |->
                 (IF j % 2 = 1 THEN 1 ELSE -1) * M[1][j] * Det(Minor(M, j))])

\* the row h multiplied by the product of its denominators: the same
\* halfspace, with integer coefficients
IntegerRow(h) ==
    LET f == IProd([c \in 1..Len(h) |-> h[c][2]])
    IN  [c \in 1..Len(h) |-> h[c][1] * (f \div h[c][2])]

\* the point where the rows sel of H (integer rows) hold with equality, by
\* Cramer's rule: <<d, d_1, .., d_K>> stands for x_j = d_j / d; d = 0 when the
\* rows are linearly dependent
Intersection(H, K, sel) ==
    LET M == [r \in 1..K |-> [c \in 1..K |-> H[sel[r]][c + 1]]]
        b == [r \in 1..K |-> -H[sel[r]][1]]
        Mj(j) == [r \in 1..K |-> [c \in 1..K |-> IF c = j THEN b[r] ELSE M[r][c]]]
    IN  <<Det(M)>> \o [j \in 1..K |-> Det(Mj(j))]

\* the sign of h . (1, x) times d^2, for the integer row h and x_j = p[j + 1] / p[1]
SignAt(h, p) ==
    LET val == ISum([c \in 1..Len(h) |-> h[c] * p[c]])
    IN  IF p[1] > 0 THEN val ELSE -val

Satisfies(h, v) == RLe(I(0), Dot(h, v))
OnFacet(h, v) == RIsZero(Dot(h, v))

\* lexicographic order on points
RECURSIVE LexLt(_, _)
LexLt(v, w) ==
    /\ v # <<>>
    /\ \/ RLt(Head(v), Head(w))
       \/ Head(v) = Head(w) /\ LexLt(Tail(v), Tail(w))

RECURSIVE SortedSeq(_)
SortedSeq(S) ==
    IF S = {} THEN <<>>
    ELSE LET least == CHOOSE v \in S : \A w \in S \ {v} : LexLt(v, w)
         IN  <<least>> \o SortedSeq(S \ {least})

\* compute_octahedron_V(A): the vertices of {x : A (1, x) >= 0} in homogeneous
\* form and, for each vertex, the bset of the rows of A it lies on.  The
\* vertices are the feasible intersections of K independent rows, in
\* lexicographic order.
compute_octahedron_V(A_) ==
    LET K == A_.cols - 1
        H == [i \in 1..Rows(A_) |-> IntegerRow(A_.m[i])]
        pts == {Intersection(H, K, sel) : sel \in IncSeqs(1, Rows(A_), K)}
        feasible == {p \in pts : p[1] # 0 /\ \A i \in 1..Rows(A_) : SignAt(H[i], p) >= 0}
        V == SortedSeq({<<I(1)>> \o [j \in 1..K |-> Q(p[j + 1], p[1])] : p \in feasible})
    IN  [V |-> V,
         incidence |-> [k \in 1..Len(V) |-> [i \in 1..Rows(A_) |-> OnFacet(A_.m[i], V[k])]]]

\* x is sign-consistent with the quadrant: x_i >= 0 for PLUS, x_i <= 0 for MINUS
InQuadrant(quadrant, v) ==
    \A i \in 1..Len(quadrant) :
        IF quadrant[i] = "PLUS" THEN RLe(I(0), v[i + 1]) ELSE RLe(v[i + 1], I(0))

\* the indices k of s with P(s[k]), in increasing order
RECURSIVE SelectIdx(_, _, _)
SelectIdx(s, k, quadrant) ==
    IF k > Len(s) THEN <<>>
    ELSE (IF InQuadrant(quadrant, s[k]) THEN <<k>> ELSE <<>>) \o SelectIdx(s, k + 1, quadrant)

\* split_in_quadrants(oct.V, oct.incidence, oct.orthant_adjacencies, K): one
\* entry per quadrant, empty ones included, with the vertices compatible with
\* the quadrant (a vertex with a coordinate 0 is in every quadrant sharing that
\* boundary) and their incidence, extended by one bit per dimension: the
\* vertex lies on x_i = 0.  vals are the rational vectors of the entry, which
\* the caller finds in freshly allocated mpq_t arrays.
split_in_quadrants(oct, K) ==
    LET quads == AllQuadrants(K)
    IN  [t \in 1..Len(quads) |->
            LET idx == SelectIdx(oct.V, 1, quads[t])
            IN  [quadrant |-> quads[t],
                 vals |-> [k \in 1..Len(idx) |-> oct.V[idx[k]]],
                 V_to_H_incidence |->
                    [k \in 1..Len(idx) |->
                        oct.incidence[idx[k]] \o
                        [i \in 1..K |-> RIsZero(oct.V[idx[k]][i + 1])]]]]

-----------------------------------------------------------------------------
(* The per-quadrant solver (the body of the loop of fkrelu).               *)

IsSubset(b, c) == \A k \in 1..Len(b) : b[k] => c[k]

\* the increasing sequence of the members of a set of integers
RECURSIVE IncSeqOf(_)
IncSeqOf(S) ==
    IF S = {} THEN <<>>
    ELSE LET least == CHOOSE x \in S : \A y \in S : x <= y
         IN  <<least>> \o IncSeqOf(S \ {least})

\* compute_maximal_indexes(incidence): the 0-based indices of the bsets that
\* are no subset of the bset of another index, in increasing order
compute_maximal_indexes(incidence) ==
    IncSeqOf({i - 1 : i \in {i \in 1..Len(incidence) :
                ~\E j \in 1..Len(incidence) :
                    j # i /\ IsSubset(incidence[i], incidence[j])}})

\* mpq_convert2eigen(n, V_mpq): the n leading entries of every array, as a matrix
mpq_convert2eigen(n, V_mpq, heap_) ==
    Matrix(n, [k \in 1..Len(V_mpq) |-> [c \in 1..n |-> heap_[V_mpq[k]].val[c]]])

\* mpq_free_array_vector(n, V_mpq): releases every array of the vector
mpq_free_array_vector(V_mpq, heap_) ==
    [id \in 1..Len(heap_) |->
        IF \E k \in 1..Len(V_mpq) : V_mpq[k] = id
        THEN [heap_[id] EXCEPT !.frees = @ + 1]
        ELSE heap_[id]]

ReadsReleased(V_mpq, heap_) == \E k \in 1..Len(V_mpq) : heap_[V_mpq[k]].frees > 0

\* the PDD of an empty quadrant (fkrelu.cpp:87-88)
EmptyPDD(K) ==
    [dim |-> K + 1, V |-> Matrix(K + 1, <<>>), H |-> Matrix(K + 1, <<>>),
     incidence |-> <<>>]

\* faulty variant: the signs of the synthesized rows are exchanged
HRow_flipped(A_, K, quadrant, maximal) ==
    IF maximal < Rows(A_) THEN A_.m[maximal + 1]
    ELSE LET xi == maximal - Rows(A_)
         IN  [c \in 1..(K + 1) |->
                IF c # xi + 2 THEN I(0)
                ELSE IF quadrant[xi + 1] = "MINUS" THEN I(1) ELSE I(-1)]

\* faulty variant: the coefficient is written to column xi instead of xi + 1
HRow_shifted(A_, K, quadrant, maximal) ==
    IF maximal < Rows(A_) THEN A_.m[maximal + 1]
    ELSE LET xi == maximal - Rows(A_)
         IN  [c \in 1..(K + 1) |->
                IF c # xi + 1 THEN I(0)
                ELSE IF quadrant[xi + 1] = "MINUS" THEN I(-1) ELSE I(1)]

\* fkrelu.cpp:109-120, the row of H for the maximal index `maximal`
HRow(A_, K, quadrant, maximal) ==
    IF maximal < Rows(A_) THEN A_.m[maximal + 1]
    ELSE LET xi == maximal - Rows(A_)
         IN  [c \in 1..(K + 1) |->
                IF c # xi + 2 THEN I(0)
                ELSE IF quadrant[xi + 1] = "MINUS" THEN I(-1) ELSE I(1)]

\* faulty variant: incidence_H_to_V[i] is read at i instead of maximal_H[i]
quadrant_pdd_misindexed(A_, K, quadrant, V, incidence_V_to_H) ==
    LET tr == transpose_incidence(incidence_V_to_H)
        maximal_H == compute_maximal_indexes(tr.res)
    IN  Ok([dim |-> K + 1,
            V |-> V,
            H |-> Matrix(K + 1, [i \in 1..Len(maximal_H) |->
                                    HRow(A_, K, quadrant, maximal_H[i])]),
            incidence |-> [i \in 1..Len(maximal_H) |-> tr.res[i]]])

\* fkrelu.cpp:95-123, the PDD of a non-empty quadrant with vertex matrix V
quadrant_pdd(A_, K, quadrant, V, incidence_V_to_H) ==
    IF Len(incidence_V_to_H) # Rows(V)
    THEN Abort("Incidence_V_to_H size should equal V.rows()")
    ELSE LET tr == transpose_incidence(incidence_V_to_H)
         IN  IF tr.status # "ok" THEN tr
             ELSE IF Len(tr.res) # Rows(A_) + K
             THEN Abort("Incidence_H_to_V_with_redundancy size should equal A.rows() + K")
             ELSE LET maximal_H == compute_maximal_indexes(tr.res)
                  IN  IF \E i \in 1..Len(maximal_H) :
                            maximal_H[i] >= Rows(A_) + K
                      THEN Abort("Sanity checking the range of xi.")
                      ELSE Ok([dim |-> K + 1,
                               V |-> V,
                               H |-> Matrix(K + 1,
                                        [i \in 1..Len(maximal_H) |->
                                            HRow(A_, K, quadrant, maximal_H[i])]),
                               incidence |->
                                        [i \in 1..Len(maximal_H) |->
                                            tr.res[maximal_H[i] + 1]]])

\* the rows of rows, each kept at its first occurrence
RECURSIVE Dedup(_, _)
Dedup(rows, seen) ==
    IF rows = <<>> THEN <<>>
    ELSE IF Head(rows) \in seen THEN Dedup(Tail(rows), seen)
    ELSE <<Head(rows)>> \o Dedup(Tail(rows), seen \cup {Head(rows)})

RECURSIVE ConcatH(_)
ConcatH(pdds) ==
    IF pdds = <<>> THEN <<>> ELSE Head(pdds).pdd.H.m \o ConcatH(Tail(pdds))

\* decomposition(quadrant2pdd, K): the halfspace rows of all quadrants
\* assembled into one matrix without duplicates
decomposition(q2pdd, K) == Matrix(K + 1, Dedup(ConcatH(q2pdd), {}))

-----------------------------------------------------------------------------
(* Inputs.                                                                 *)

Halves == {Q(n, 2) : n \in (-2 * MaxCoord)..(2 * MaxCoord)}

\* the K = 1 input for lb <= x <= ub: rows -lb + x >= 0 and ub - x >= 0
Interval(l, u) == Matrix(2, << <<RNeg(l), I(1)>>, <<u, I(-1)>> >>)

NonZeros(g) == Cardinality({j \in 1..Len(g) : g[j] # 0})

IntDot(g, c) == RSum([j \in 1..Len(g) |-> I(g[j] * c[j])])

\* the input for the octahedron with centre c: |x_i - c_i| <= rb for every
\* dimension and every row with two or more non-zero coefficients g has
\* -g . (x - c) <= rd
Octahedron(K, c, rb, rd) ==
    LET coefs == K2OCTAHEDRON_COEFS(K)
    IN  Matrix(K + 1,
            [i \in 1..Len(coefs) |->
                <<RSub(I(IF NonZeros(coefs[i]) = 1 THEN rb ELSE rd), IntDot(coefs[i], c))>>
                \o [j \in 1..K |-> I(coefs[i][j])]])

ValidInputs1 == {Interval(l, u) : l \in Halves, u \in Halves}

ValidInputs2 ==
    {Octahedron(2, c, rb, rd) :
        c \in [1..2 -> (-MaxCentre)..MaxCentre],
        rb \in (-1)..MaxRadius, rd \in (-1)..(2 * MaxRadius)}

\* two inputs for K = 3: an octahedron cut by the planes x_1 = 0 and x_3 = 0,
\* and a cube cut at its corners that lies in x_1 >= 0 and x_3 <= 0
ValidInputs3 == {Octahedron(3, <<0, 1, 0>>, 2, 1), Octahedron(3, <<1, 0, -1>>, 1, 2)}

ValidInputs == ValidInputs1 \cup ValidInputs2 \cup ValidInputs3

Zeros(n) == [j \in 1..n |-> 0]

\* a well-formed input for K dimensions, the base of the malformed ones
Canonical(K) == Octahedron(K, Zeros(K), 1, 1)

\* K = A.cols() - 1 outside MinK..MaxK
BadKInputs ==
    {Matrix(0, <<>>), Matrix(1, <<>>), Matrix(1, << <<I(1)>> >>), Canonical(MaxK + 1)}

\* a row too few, a row too many, no row at all
BadRowsFor(K) ==
    LET base == Canonical(K)
    IN  {Matrix(K + 1, SubSeq(base.m, 1, Rows(base) - 1)),
         Matrix(K + 1, base.m \o <<base.m[1]>>),
         Matrix(K + 1, <<>>)}

BadRowsInputs == UNION {BadRowsFor(K) : K \in MinK..MaxK}

\* one coefficient that is not the one of the table
BadCoefsFor(K) ==
    LET base == Canonical(K)
    IN  UNION {{Matrix(K + 1, [base.m EXCEPT ![t[1]][t[2] + 1] = x]) :
                    x \in {I(-1), I(0), I(1), Q(1, 2)} \ {base.m[t[1]][t[2] + 1]}} :
               t \in (1..Rows(base)) \X (1..K)}

BadCoefsInputs == UNION {BadCoefsFor(K) : K \in MinK..MaxK}

FkreluInputs == ValidInputs \cup BadKInputs \cup BadRowsInputs \cup BadCoefsInputs

CddInputs == ValidInputs \cup BadKInputs

BitsetLists ==
    UNION {[1..r -> [1..c -> BOOLEAN]] : r \in 0..MaxRows, c \in 0..MaxBits}

-----------------------------------------------------------------------------
(* The state machine: a call of one of the four functions.                 *)

NoVertices == [alloc |-> FALSE, m |-> <<>>, frees |-> 0]

Init ==
    /\ pc = "idle"
    /\ op = "none"
    /\ A = Matrix(0, <<>>)
    /\ lb = I(0)
    /\ ub = I(0)
    /\ tr_in = <<>>
    /\ tr_out = None
    /\ tr_back = None
    /\ ret = None
    /\ invoked = {}
    /\ quadrant2info = <<>>
    /\ qi = 0
    /\ quadrant2pdd = <<>>
    /\ heap = <<>>
    /\ uaf = FALSE
    /\ vertices = NoVertices
    /\ counter = 0
    /\ num_vertices = 0

Left(outcome) == IF outcome.status = "ok" THEN "returned" ELSE "failed"

\* transpose_incidence(x)
TransposeCall(x) ==
    /\ pc = "idle"
    /\ op' = "transpose_incidence"
    /\ tr_in' = x
    /\ tr_out' = transpose_incidence(x)
    /\ ret' = tr_out'
    /\ pc' = IF tr_out'.status = "ok" THEN "transposed" ELSE "failed"
    /\ UNCHANGED <<A, lb, ub, tr_back, invoked, quadrant2info, qi, quadrant2pdd,
                   heap, uaf, vertices, counter, num_vertices>>

\* transpose_incidence(tr_out), the transposition of the first result
TransposeBack ==
    /\ pc = "transposed"
    /\ tr_back' = transpose_incidence(tr_out.res)
    /\ ret' = tr_back'
    /\ pc' = Left(tr_back')
    /\ UNCHANGED <<op, A, lb, ub, tr_in, tr_out, invoked, quadrant2info, qi,
                   quadrant2pdd, heap, uaf, vertices, counter, num_vertices>>

\* relu_1(l, u)
Relu1Call(l, u) ==
    /\ pc = "idle"
    /\ op' = "relu_1"
    /\ lb' = l
    /\ ub' = u
    /\ invoked' = {"relu_1"}
    /\ ret' = relu_1(l, u)
    /\ pc' = Left(ret')
    /\ UNCHANGED <<A, tr_in, tr_out, tr_back, quadrant2info, qi, quadrant2pdd,
                   heap, uaf, vertices, counter, num_vertices>>

\* number of vertices of the entries before entry t
RECURSIVE Offset(_, _)
Offset(infos, t) == IF t = 1 THEN 0 ELSE Offset(infos, t - 1) + Len(infos[t - 1].vals)

RECURSIVE AllVals(_)
AllVals(infos) == IF infos = <<>> THEN <<>> ELSE Head(infos).vals \o AllVals(Tail(infos))

\* the mpq_t arrays of the quadrants, one per vertex of every quadrant, not released
HeapOf(infos) ==
    LET vals == AllVals(infos)
    IN  [id \in 1..Len(vals) |-> [val |-> vals[id], frees |-> 0]]

\* the map<Quadrant, QuadrantInfo>: V holds the arrays (their ids in heap)
InfoMap(infos) ==
    [t \in 1..Len(infos) |->
        [quadrant |-> infos[t].quadrant,
         V |-> [k \in 1..Len(infos[t].vals) |-> Offset(infos, t) + k],
         V_to_H_incidence |-> infos[t].V_to_H_incidence]]

\* fkrelu.cpp:65-71: the range of K, the input check and the closed form for K = 1
FkreluCall(A_) ==
    LET K == A_.cols - 1
        checked == IF ~(MinK <= K /\ K <= MaxK)
                   THEN Fail("K should be within allowed range.")
                   ELSE verify_fkrelu_input(A_)
    IN  /\ pc = "idle"
        /\ op' = "fkrelu"
        /\ A' = A_
        /\ IF checked.status # "ok"
           THEN /\ ret' = checked
                /\ pc' = "failed"
                /\ UNCHANGED <<lb, ub, invoked>>
           ELSE IF K = 1
           THEN /\ lb' = RNeg(A_.m[1][1])
                /\ ub' = A_.m[2][1]
                /\ invoked' = {"relu_1"}
                /\ ret' = relu_1(lb', ub')
                /\ pc' = Left(ret')
           ELSE /\ pc' = "fk_enumerate"
                /\ UNCHANGED <<lb, ub, invoked, ret>>
        /\ UNCHANGED <<tr_in, tr_out, tr_back, quadrant2info, qi, quadrant2pdd,
                       heap, uaf, vertices, counter, num_vertices>>

\* fkrelu.cpp:72-80: the vertices of the octahedron, split in quadrants; the
\* splitter takes the arrays of oct.V over and hands out those of the quadrants
FkreluEnumerate ==
    LET K == A.cols - 1
        infos == split_in_quadrants(compute_octahedron_V(A), K)
    IN  /\ pc = "fk_enumerate"
        /\ invoked' = invoked \cup {"compute_octahedron_V", "split_in_quadrants"}
        /\ quadrant2info' = InfoMap(infos)
        /\ heap' = HeapOf(infos)
        /\ qi' = 0
        /\ quadrant2pdd' = <<>>
        /\ pc' = "fk_loop"
        /\ UNCHANGED <<op, A, lb, ub, tr_in, tr_out, tr_back, ret, uaf, vertices,
                       counter, num_vertices>>

\* fkrelu.cpp:81-90: the next quadrant of the map is empty
FkreluQuadrantEmpty ==
    LET K == A.cols - 1
    IN  /\ pc = "fk_loop"
        /\ qi < Len(quadrant2info)
        /\ quadrant2info[qi + 1].V = <<>>
        /\ quadrant2pdd' = Append(quadrant2pdd,
                [quadrant |-> quadrant2info[qi + 1].quadrant, pdd |-> EmptyPDD(K)])
        /\ qi' = qi + 1
        /\ UNCHANGED <<pc, op, A, lb, ub, tr_in, tr_out, tr_back, ret, invoked,
                       quadrant2info, heap, uaf, vertices, counter, num_vertices>>

\* fkrelu.cpp:81-84 and 92-123: the next quadrant of the map has vertices
FkreluQuadrantSolve ==
    LET K == A.cols - 1
        info == quadrant2info[qi + 1]
        V == mpq_convert2eigen(K + 1, info.V, heap)
        pdd == quadrant_pdd(A, K, info.quadrant, V, info.V_to_H_incidence)
    IN  /\ pc = "fk_loop"
        /\ qi < Len(quadrant2info)
        /\ info.V # <<>>
        /\ uaf' = (uaf \/ ReadsReleased(info.V, heap))
        /\ heap' = mpq_free_array_vector(info.V, heap)
        /\ IF pdd.status = "ok"
           THEN /\ quadrant2pdd' = Append(quadrant2pdd,
                        [quadrant |-> info.quadrant, pdd |-> pdd.res])
                /\ qi' = qi + 1
                /\ UNCHANGED <<pc, ret>>
           ELSE /\ ret' = pdd
                /\ pc' = "failed"
                /\ UNCHANGED <<quadrant2pdd, qi>>
        /\ UNCHANGED <<op, A, lb, ub, tr_in, tr_out, tr_back, invoked, quadrant2info,
                       vertices, counter, num_vertices>>

\* fkrelu.cpp:125: every quadrant has its PDD
FkreluDecompose ==
    LET K == A.cols - 1
    IN  /\ pc = "fk_loop"
        /\ qi = Len(quadrant2info)
        /\ invoked' = invoked \cup {"decomposition"}
        /\ ret' = Ok(decomposition(quadrant2pdd, K))
        /\ pc' = "returned"
        /\ UNCHANGED <<op, A, lb, ub, tr_in, tr_out, tr_back, quadrant2info, qi,
                       quadrant2pdd, heap, uaf, vertices, counter, num_vertices>>

-----------------------------------------------------------------------------
(* krelu_with_cdd.                                                         *)

\* compute_quadrants_with_cdd(A): the same vertices by quadrant as the
\* enumerator and the splitter of fkrelu give
compute_quadrants_with_cdd(A_) ==
    split_in_quadrants(compute_octahedron_V(A_), A_.cols - 1)

RECURSIVE SumSizes(_)
SumSizes(infos) == IF infos = <<>> THEN 0 ELSE Len(Head(infos).V) + SumSizes(Tail(infos))

\* dd_CreateMatrix(rows, cols): a matrix of zeros
dd_CreateMatrix(rows, cols) ==
    [alloc |-> TRUE, m |-> [r \in 1..rows |-> [c \in 1..cols |-> I(0)]], frees |-> 0]

\* faulty variant: the coordinate is copied whatever the sign of the quadrant
embed_vertex_all(K, quadrant, v, row) ==
    [c \in 1..Len(row) |-> IF c <= K + 1 THEN v[c] ELSE v[c - K]]

\* fkrelu.cpp:150-161: the row of `vertices` for the vertex v of the quadrant,
\* written over the row `row` of the matrix
embed_vertex(K, quadrant, v, row) ==
    [c \in 1..Len(row) |->
        IF c <= K + 1 THEN v[c]
        ELSE IF quadrant[c - K - 1] = "PLUS" THEN v[c - K]
        ELSE row[c]]

RAbs(x) == <<Abs(x[1]), x[2]>>

RECURSIVE RMaxAbs(_)
RMaxAbs(row) ==
    IF Len(row) = 1 THEN RAbs(row[1])
    ELSE LET rest == RMaxAbs(Tail(row))
         IN  IF RLt(rest, RAbs(Head(row))) THEN RAbs(Head(row)) ELSE rest

\* fkrelu.cpp:175-178: every row divided by its largest absolute coefficient
Normalized(H) ==
    Matrix(H.cols, [i \in 1..Rows(H) |->
                        [c \in 1..H.cols |-> RDiv(H.m[i][c], RMaxAbs(H.m[i]))]])

\* rows the double-description library may give for the lifted vertices: the
\* facets y_d >= 0 and y_d >= x_d, at scale 1 or 2
DDRows(K) ==
    {[c \in 1..(2 * K + 1) |->
        IF c = 1 + K + t[1] THEN I(t[3])
        ELSE IF c = 1 + t[1] /\ t[2] = 1 THEN I(-t[3]) ELSE I(0)] :
     t \in (1..K) \X (0..1) \X (1..2)}

\* dd_CopyInequalities(poly), read by cdd2eigen
DDInequalities(K) ==
    {Matrix(2 * K + 1, <<>>)} \cup {Matrix(2 * K + 1, <<r>>) : r \in DDRows(K)}

\* fkrelu.cpp:128-140
CddCall(A_) ==
    LET K == A_.cols - 1
    IN  /\ pc = "idle"
        /\ op' = "krelu_with_cdd"
        /\ A' = A_
        /\ IF ~(MinK <= K /\ K <= MaxK)
           THEN /\ ret' = Fail("K should be within allowed range.")
                /\ pc' = "failed"
                /\ UNCHANGED <<invoked, quadrant2info, heap, num_vertices, vertices>>
           ELSE LET infos == compute_quadrants_with_cdd(A_)
                IN  /\ invoked' = {"compute_quadrants_with_cdd"}
                    /\ quadrant2info' = InfoMap(infos)
                    /\ heap' = HeapOf(infos)
                    /\ num_vertices' = SumSizes(quadrant2info')
                    /\ vertices' = dd_CreateMatrix(num_vertices', 2 * K + 1)
                    /\ pc' = "cdd_loop"
                    /\ UNCHANGED ret
        /\ counter' = 0
        /\ qi' = 0
        /\ UNCHANGED <<lb, ub, tr_in, tr_out, tr_back, quadrant2pdd, uaf>>

\* fkrelu.cpp:145-165: the vertices of the next quadrant of the map
CddQuadrant ==
    LET K == A.cols - 1
        info == quadrant2info[qi + 1]
        n == Len(info.V)
    IN  /\ pc = "cdd_loop"
        /\ qi < Len(quadrant2info)
        /\ uaf' = (uaf \/ ReadsReleased(info.V, heap))
        /\ vertices' = [vertices EXCEPT !.m =
                [r \in 1..Len(vertices.m) |->
                    IF counter < r /\ r <= counter + n
                    THEN embed_vertex(K, info.quadrant, heap[info.V[r - counter]].val,
                                      vertices.m[r])
                    ELSE vertices.m[r]]]
        /\ counter' = counter + n
        /\ heap' = mpq_free_array_vector(info.V, heap)
        /\ qi' = qi + 1
        /\ UNCHANGED <<pc, op, A, lb, ub, tr_in, tr_out, tr_back, ret, invoked,
                       quadrant2info, quadrant2pdd, num_vertices>>

\* fkrelu.cpp:166-170: dd_DDMatrix2Poly reports an error
CddConvertFails ==
    /\ pc = "cdd_loop"
    /\ qi = Len(quadrant2info)
    /\ invoked' = invoked \cup {"dd_DDMatrix2Poly"}
    /\ ret' = IF counter # num_vertices
              THEN Abort("Consistency checking that counter equals the number of vertices.")
              ELSE Fail("Converting matrix to polytope failed with error")
    /\ pc' = "failed"
    /\ UNCHANGED <<op, A, lb, ub, tr_in, tr_out, tr_back, quadrant2info, qi,
                   quadrant2pdd, heap, uaf, vertices, counter, num_vertices>>

\* fkrelu.cpp:166-184: dd_DDMatrix2Poly gives the polytope
CddConvertReturns(inequalities) ==
    /\ pc = "cdd_loop"
    /\ qi = Len(quadrant2info)
    /\ counter = num_vertices
    /\ invoked' = invoked \cup {"dd_DDMatrix2Poly"}
    /\ ret' = Ok(Normalized(inequalities))
    /\ vertices' = [vertices EXCEPT !.frees = @ + 1]
    /\ pc' = "returned"
    /\ UNCHANGED <<op, A, lb, ub, tr_in, tr_out, tr_back, quadrant2info, qi,
                   quadrant2pdd, heap, uaf, counter, num_vertices>>

-----------------------------------------------------------------------------

Next ==
    \/ \E x \in BitsetLists : TransposeCall(x)
    \/ TransposeBack
    \/ \E l \in Halves, u \in Halves : Relu1Call(l, u)
    \/ \E A_ \in FkreluInputs : FkreluCall(A_)
    \/ FkreluEnumerate
    \/ FkreluQuadrantEmpty
    \/ FkreluQuadrantSolve
    \/ FkreluDecompose
    \/ \E A_ \in CddInputs : CddCall(A_)
    \/ CddQuadrant
    \/ CddConvertFails
    \/ \E ineq \in DDInequalities(A.cols - 1) : CddConvertReturns(ineq)

Spec == Init /\ [][Next]_vars

-----------------------------------------------------------------------------
(* Properties.                                                             *)

Straddles == RLt(lb, I(0)) /\ RLt(I(0), ub)
Relu1Invoked == "relu_1" \in invoked
CallLeft == pc \in {"returned", "failed"}

\* max(x, 0)
Relu(x) == IF RLt(x, I(0)) THEN I(0) ELSE x

\* C1: for lb < 0 < ub relu_1(lb, ub) returns exactly the rows (0, 0, 1),
\* (0, -1, 1) and (lmd, mu, -1) with mu (ub - lb) = ub and
\* lmd (ub - lb) = -lb ub; fkrelu on a well-formed 2-row input calls it with
\* lb = -A(0, 0) and ub = A(1, 0) and returns its result; for lb = -1 and
\* ub = 2 the third row is (2/3, 2/3, -1).
C1_Relu1Rows ==
    /\ (Relu1Invoked /\ Straddles) =>
            /\ pc = "returned"
            /\ ret.status = "ok"
            /\ ret.res.cols = 3
            /\ Len(ret.res.m) = 3
            /\ ret.res.m[1] = <<I(0), I(0), I(1)>>
            /\ ret.res.m[2] = <<I(0), I(-1), I(1)>>
            /\ Len(ret.res.m[3]) = 3
            /\ RMul(ret.res.m[3][1], RSub(ub, lb)) = RMul(RNeg(lb), ub)
            /\ RMul(ret.res.m[3][2], RSub(ub, lb)) = ub
            /\ ret.res.m[3][3] = I(-1)
    /\ (op = "fkrelu" /\ A.cols = 2 /\ verify_fkrelu_input(A).status = "ok") =>
            /\ Relu1Invoked
            /\ lb = RNeg(A.m[1][1])
            /\ ub = A.m[2][1]
    /\ (Relu1Invoked /\ lb = I(-1) /\ ub = I(2)) =>
            ret.res.m[3] = <<Q(2, 3), Q(2, 3), I(-1)>>

\* C1 witness: fkrelu returned the relaxation for lb = -1, ub = 2
C1_Witness ==
    /\ op = "fkrelu"
    /\ pc = "returned"
    /\ A = Matrix(2, << <<I(1), I(1)>>, <<I(2), I(-1)>> >>)
    /\ ret.res.m[3] = <<Q(2, 3), Q(2, 3), I(-1)>>

\* the points at which soundness is tested: the quarters between the bounds
SamplePoints == {Q(n, 4) : n \in (-4 * MaxCoord)..(4 * MaxCoord)}

\* C2: for lb < 0 < ub and every x with lb <= x <= ub the point
\* (x, max(x, 0)) satisfies the three rows that relu_1(lb, ub) returns.
C2_Relu1Sound ==
    (Relu1Invoked /\ ret.status = "ok") =>
        \A x \in SamplePoints :
            (RLe(lb, x) /\ RLe(x, ub)) =>
                \A i \in 1..Len(ret.res.m) :
                    Satisfies(ret.res.m[i], <<I(1), x, Relu(x)>>)

\* C2 witness: a relaxation was returned for non-integer bounds, and its
\* upper row is tight at x = ub
C2_Witness ==
    /\ Relu1Invoked
    /\ ret.status = "ok"
    /\ lb = Q(-3, 2)
    /\ ub = Q(1, 2)
    /\ OnFacet(ret.res.m[3], <<I(1), ub, Relu(ub)>>)

Malformed(A_) ==
    LET K == A_.cols - 1
    IN  \/ K < 1
        \/ K > 4
        \/ Rows(A_) # Pow3(K) - 1
        \/ \E i \in 0..(Rows(A_) - 1) : \E j \in 0..(K - 1) :
                A_.m[i + 1][j + 2] # I(K2OCTAHEDRON_COEFS(K)[i + 1][j + 1])

\* C3: fkrelu fails, and returns no matrix, for every input whose K is
\* outside [1, 4], whose number of rows is not 3^K - 1 or one of whose
\* coefficients is not the one of the table, and it has then invoked neither
\* the enumerator, nor the splitter, nor the closed form.
C3_Rejects ==
    (op = "fkrelu" /\ Malformed(A)) =>
        /\ pc = "failed"
        /\ ret.status = "ASRTF"
        /\ invoked = {}
        /\ quadrant2info = <<>>
        /\ heap = <<>>

\* C3 witness: an input with the right K and number of rows and one wrong
\* coefficient was rejected
C3_Witness ==
    /\ op = "fkrelu"
    /\ A.cols = 3
    /\ Rows(A) = 8
    /\ A.m[8][3] # I(-1)
    /\ pc = "failed"
    /\ ret = Fail("Input is not of correct format.")

\* C7 as stated: transposing twice gives the input back, for every list of
\* equal-length bitsets.
C7_RoundTripAlways ==
    (op = "transpose_incidence" /\ CallLeft) => tr_back = Ok(tr_in)

\* C7, amended: for every non-empty list of equal-length bitsets of at least
\* one bit, the transpose has one bitset per column, each as long as the
\* list, with bit r of output[c] set iff bit c of x[r] is set, and
\* transposing the transpose gives the list back.
C7_RoundTrip ==
    (op = "transpose_incidence" /\ tr_in # <<>> /\ tr_in[1] # <<>>) =>
        /\ tr_out.status = "ok"
        /\ Len(tr_out.res) = Len(tr_in[1])
        /\ \A c \in 1..Len(tr_out.res) :
                /\ Len(tr_out.res[c]) = Len(tr_in)
                /\ \A r \in 1..Len(tr_in) : tr_out.res[c][r] <=> tr_in[r][c]
        /\ pc # "failed"
        /\ pc = "returned" => tr_back = Ok(tr_in)

\* C7 witness: a list of three bitsets of two bits, neither all set nor all
\* clear, went through both transpositions
C7_Witness ==
    /\ op = "transpose_incidence"
    /\ pc = "returned"
    /\ tr_in = << <<TRUE, FALSE>>, <<TRUE, TRUE>>, <<FALSE, FALSE>> >>
    /\ tr_out.res = << <<TRUE, TRUE, FALSE>>, <<FALSE, TRUE, FALSE>> >>

\* C9: when fkrelu or krelu_with_cdd is left, by a return or by a failure,
\* every exact rational vertex array allocated for the call, the combined
\* vertex matrix included, has been released exactly once, and none was read
\* after its release.
C9_Released ==
    (op \in {"fkrelu", "krelu_with_cdd"} /\ CallLeft) =>
        /\ \A id \in 1..Len(heap) : heap[id].frees = 1
        /\ vertices.alloc => vertices.frees = 1
        /\ ~uaf

\* the vertices the splitter gave for entry t of the map, as rational vectors
VerticesOf(t) == [k \in 1..Len(quadrant2info[t].V) |-> heap[quadrant2info[t].V[k]].val]

\* the maximal indices of entry t of the map, as the loop of fkrelu computes them
MaximalOf(t) ==
    compute_maximal_indexes(transpose_incidence(quadrant2info[t].V_to_H_incidence).res)

\* the entries of the map for which the loop of fkrelu has built a PDD from vertices
Solved == {t \in 1..Len(quadrant2pdd) : op = "fkrelu" /\ quadrant2info[t].V # <<>>}

\* every vertex of entry t satisfies every row of A and has the signs of the quadrant
SplitterSound(t) ==
    \A k \in 1..Len(quadrant2info[t].V) :
        /\ \A i \in 1..Rows(A) : Satisfies(A.m[i], VerticesOf(t)[k])
        /\ InQuadrant(quadrant2info[t].quadrant, VerticesOf(t)[k])

\* C5: when the vertices the splitter assigns to a quadrant satisfy every row
\* of A and have the signs of the quadrant, every vertex of the PDD of the
\* quadrant satisfies h . v >= 0 for every row h of the H of that PDD, the
\* synthesized sign rows included.
C5_QuadrantSound ==
    \A t \in Solved :
        SplitterSound(t) =>
            \A k \in 1..Rows(quadrant2pdd[t].pdd.V) :
                \A i \in 1..Rows(quadrant2pdd[t].pdd.H) :
                    Satisfies(quadrant2pdd[t].pdd.H.m[i], quadrant2pdd[t].pdd.V.m[k])

\* C5 witness: a PDD whose H has a synthesized row for a MINUS dimension and
\* a vertex strictly inside that halfspace
C5_Witness ==
    \E t \in Solved :
        /\ SplitterSound(t)
        /\ \E i \in 1..Rows(quadrant2pdd[t].pdd.H) :
            /\ MaximalOf(t)[i] >= Rows(A)
            /\ quadrant2info[t].quadrant[MaximalOf(t)[i] - Rows(A) + 1] = "MINUS"
            /\ \E k \in 1..Rows(quadrant2pdd[t].pdd.V) :
                RLt(I(0), Dot(quadrant2pdd[t].pdd.H.m[i], quadrant2pdd[t].pdd.V.m[k]))

\* the candidate constraints of a quadrant: the rows of A, then x_d >= 0
\* (PLUS) or -x_d >= 0 (MINUS) for every dimension d
Candidates(quadrant) ==
    A.m \o [d \in 1..Len(quadrant) |->
                [c \in 1..(Len(quadrant) + 1) |->
                    IF c # d + 1 THEN I(0)
                    ELSE IF quadrant[d] = "PLUS" THEN I(1) ELSE I(-1)]]

\* the vertices of V that lie on the hyperplane of h, as a bset over the rows of V
IncidentSet(h, V) == [k \in 1..Rows(V) |-> OnFacet(h, V.m[k])]

\* the candidates whose incident-vertex set is within that of no other candidate
MaximalCandidates(quadrant, V) ==
    LET cand == Candidates(quadrant)
    IN  IncSeqOf({c \in 1..Len(cand) :
            ~\E e \in 1..Len(cand) :
                e # c /\ IsSubset(IncidentSet(cand[c], V), IncidentSet(cand[e], V))})

\* C6: in the PDD of a non-empty quadrant the rows of H are exactly the
\* maximal candidate constraints, no incident-vertex set of a retained row is
\* within that of another retained row, and incidence_H_to_V[i] is the set of
\* the vertices of V that lie on the constraint H.row(i).
C6_QuadrantMinimal ==
    \A t \in Solved :
        LET pdd == quadrant2pdd[t].pdd
            quadrant == quadrant2pdd[t].quadrant
            maxc == MaximalCandidates(quadrant, pdd.V)
        IN  /\ quadrant = quadrant2info[t].quadrant
            /\ pdd.H.m = [i \in 1..Len(maxc) |-> Candidates(quadrant)[maxc[i]]]
            /\ Len(pdd.incidence) = Rows(pdd.H)
            /\ \A i \in 1..Rows(pdd.H) :
                    pdd.incidence[i] = IncidentSet(pdd.H.m[i], pdd.V)
            /\ \A i \in 1..Rows(pdd.H) : \A j \in 1..Rows(pdd.H) :
                    i # j => ~IsSubset(pdd.incidence[i], pdd.incidence[j])

\* C6 witness: a PDD with three retained rows, one of them synthesized and
\* not the last candidate, built from ten candidates
C6_Witness ==
    \E t \in Solved :
        /\ Rows(quadrant2pdd[t].pdd.H) = 3
        /\ Rows(quadrant2pdd[t].pdd.V) = 3
        /\ Rows(A) = 8
        /\ MaximalOf(t)[3] = 8

\* C8: H has one row per maximal index and K + 1 columns; the row for a
\* maximal index m < A.rows() is A.row(m), and the row for m >= A.rows() is
\* zero except for the coefficient of dimension d = m - A.rows(), which is -1
\* when the quadrant is MINUS in d and +1 when it is PLUS.
C8_HRows ==
    \A t \in Solved :
        LET H == quadrant2pdd[t].pdd.H
            K == A.cols - 1
            maximal_H == MaximalOf(t)
        IN  /\ H.cols = K + 1
            /\ Rows(H) = Len(maximal_H)
            /\ \A i \in 1..Rows(H) :
                /\ Len(H.m[i]) = K + 1
                /\ maximal_H[i] < Rows(A) => H.m[i] = A.m[maximal_H[i] + 1]
                /\ maximal_H[i] >= Rows(A) =>
                    LET d == maximal_H[i] - Rows(A)
                    IN  /\ 0 <= d /\ d < K
                        /\ H.m[i][1] = I(0)
                        /\ \A e \in 0..(K - 1) :
                            H.m[i][e + 2] =
                                IF e # d THEN I(0)
                                ELSE IF quadrant2info[t].quadrant[d + 1] = "MINUS"
                                     THEN I(-1) ELSE I(1)

\* C8 witness: an H with a row copied from A that is not row 0 and a
\* synthesized row for the second dimension of a quadrant that is MINUS there
C8_Witness ==
    \E t \in Solved :
        /\ \E j \in 1..Len(MaximalOf(t)) :
            /\ 0 < MaximalOf(t)[j]
            /\ MaximalOf(t)[j] < Rows(A)
            /\ quadrant2pdd[t].pdd.H.m[j] = A.m[MaximalOf(t)[j] + 1]
        /\ \E i \in 1..Len(MaximalOf(t)) :
            /\ MaximalOf(t)[i] = Rows(A) + 1
            /\ quadrant2info[t].quadrant[2] = "MINUS"
            /\ quadrant2pdd[t].pdd.H.m[i] = <<I(0), I(0), I(-1)>>

\* number of vertices of the first n entries of the map
RECURSIVE SizesUpTo(_)
SizesUpTo(n) == IF n = 0 THEN 0 ELSE SizesUpTo(n - 1) + Len(quadrant2info[n].V)

\* C10: the combined vertex matrix has 2K + 1 columns and one row per vertex
\* of every quadrant, the counter is the number of vertices of the quadrants
\* gone through; the row of vertex v of quadrant q starts with v and has, for
\* every dimension i, v[1 + i] in column 1 + K + i when q[i] is PLUS and 0
\* when it is MINUS, so that it is (1, x, relu(x)) when v has the signs of q.
C10_Embedding ==
    (op = "krelu_with_cdd" /\ vertices.alloc) =>
        LET K == A.cols - 1
        IN  /\ num_vertices = SizesUpTo(Len(quadrant2info))
            /\ Len(vertices.m) = num_vertices
            /\ \A r \in 1..Len(vertices.m) : Len(vertices.m[r]) = 2 * K + 1
            /\ counter = SizesUpTo(qi)
            /\ \A t \in 1..qi : \A k \in 1..Len(quadrant2info[t].V) :
                LET row == vertices.m[SizesUpTo(t - 1) + k]
                    v == VerticesOf(t)[k]
                    q == quadrant2info[t].quadrant
                IN  /\ \A c \in 1..(K + 1) : row[c] = v[c]
                    /\ \A i \in 0..(K - 1) :
                        row[1 + K + i + 1] = IF q[i + 1] = "PLUS" THEN v[1 + i + 1] ELSE I(0)
                    /\ InQuadrant(q, v) =>
                        /\ row[1] = I(1)
                        /\ \A i \in 1..K : row[1 + K + i] = Relu(row[1 + i])

\* C10 witness: all quadrants are embedded and a row has a negative first
\* coordinate, clamped to 0, and a positive second coordinate, copied
C10_Witness ==
    /\ op = "krelu_with_cdd"
    /\ A.cols = 3
    /\ qi = Len(quadrant2info)
    /\ counter = num_vertices
    /\ \E r \in 1..Len(vertices.m) :
        /\ RLt(vertices.m[r][2], I(0))
        /\ vertices.m[r][4] = I(0)
        /\ RLt(I(0), vertices.m[r][3])
        /\ vertices.m[r][5] = vertices.m[r][3]

====
